---- MODULE Spec2Model ----
(***************************************************************************)
(* Gesture-driven morphing tree: the gesture loop (GestureHandler.predict),*)
(* the React state of App (gestureData, animProgress, the progress effect  *)
(* and its requestAnimationFrame loop), the camera rig and the entity sets *)
(* (Foliage, Ornaments, Polaroids).                                        *)
(*                                                                         *)
(* Numbers: the program computes in IEEE doubles.  Here every real is a    *)
(* fixed-point integer (progress in units of 1/Scale, coordinates in units *)
(* of 1/Milli) and every arithmetic result is rounded to the nearest unit, *)
(* as a double rounds to the nearest representable value.                  *)
(***************************************************************************)
EXTENDS Integers, Sequences, FiniteSets, TLC

VARIABLES
    gestureData,      \* App.tsx:80  committed value of useState(gestureData)
    pendingGesture,   \* queued setGestureData value (<<>> or <<sample>>)
    animProgress,     \* App.tsx:92  committed value of useState(animProgress)
    animDirty,        \* a setAnimProgress is queued and not yet rendered
    progressRef,      \* App.tsx:87  progressRef.current
    effectGen,        \* number of runs of the progress effect
    loopIsOpen,       \* gestureData.isOpen captured by the live effect closure
    loopRaf,          \* App.tsx:97  `raf` of the live effect closure (0 = unset)
    rafQueue,         \* callbacks registered with requestAnimationFrame
    running,          \* callbacks of the frame being run, in order
    inFrame,          \* the browser is running animation frame callbacks
    nextRafId,        \* next handle returned by requestAnimationFrame
    camX, camY,       \* App.tsx:27  camera.position.x / .y
    ghPhase,          \* GestureHandler initialisation progress
    landmarker,       \* GestureHandler.tsx:13 landmarkerRef.current # null
    closed,           \* close() was called on the landmarker of landmarkerRef
    unmounted,        \* App and GestureHandler are unmounted: cleanups ran, refs null
    videoTime,        \* videoRef.current.currentTime
    lastVideoTime,    \* GestureHandler.tsx:11 lastVideoTimeRef.current
    requestRef,       \* GestureHandler.tsx:12 requestRef.current
    frameCount,       \* history: animation frames started
    stepCount,        \* history: smoothing steps applied to progressRef
    stepsSinceFrame,  \* history: smoothing steps since the last frame began (or mount)
    lastTarget,       \* history: target used by the last smoothing step
    ticksAtTarget,    \* history: consecutive smoothing steps with lastTarget
    framesSinceSample,\* history: frames completed since a sample was delivered
    lastOutcome,      \* history: what the last run of predict met
    deliveredAt,      \* history: video time of every sample delivered, in order
    rng,              \* state of Math.random
    sceneStatus,      \* "unmounted", "mounted", or "error" (a render threw)
    ornProps,         \* props of an Ornaments instance: count, type, colorPalette
    ornMemo,          \* GestureHandler.tsx:151 `data` useMemo: its deps and value
    folData,          \* Foliage.tsx:90 useMemo value: one record per point
    photos,           \* Polaroids.tsx:72 `photos` useMemo value
    photoChaos,       \* Polaroids.tsx:13 `chaosPos` useMemo value of every Photo
    sceneProgress,    \* the progress prop of the last render of the scene
    clock,            \* state.clock elapsed time of the last canvas frame
    frameOut,         \* positions written by the last canvas frame
    tempObj,          \* GestureHandler.tsx:149 orientation of the shared tempObj
    ornRot,           \* orientation given to every ornament instance by the last frame
    photoRot,         \* Polaroids.tsx:45 rotation of every Photo mesh
    renderCount,      \* history: renders of the scene
    created           \* history: the entity data as generated at creation

appVars   == <<gestureData, pendingGesture, animProgress, animDirty>>
loopVars  == <<progressRef, effectGen, loopIsOpen, loopRaf>>
rafVars   == <<rafQueue, running, inFrame, nextRafId>>
camVars   == <<camX, camY>>
ghVars    == <<ghPhase, landmarker, closed, unmounted, videoTime, lastVideoTime,
               requestRef>>
stepHist  == <<stepCount, stepsSinceFrame, lastTarget, ticksAtTarget>>
histVars  == <<frameCount, framesSinceSample, lastOutcome, deliveredAt>>
sceneVars == <<rng, sceneStatus, ornProps, ornMemo, folData, photos, photoChaos,
               sceneProgress, clock, frameOut, tempObj, ornRot, photoRot,
               renderCount, created>>
pipeVars  == <<appVars, loopVars, rafVars, camVars, ghVars, stepHist, histVars>>
vars      == <<pipeVars, sceneVars>>

----------------------------------------------------------------------------
(* Bounds *)
MaxFrames    == 3     \* animation frames explored by Spec
MaxRenders   == 2     \* re-renders of the scene explored by EntitySpec
MaxOrnaments == 2     \* largest Ornaments count explored
FoliageCount == 2     \* Foliage points modelled (count = 15000 in Foliage.tsx:91)
SustainTicks == 200   \* smoothing steps explored by SustainSpec
ExactSteps   == 5     \* smoothing steps from 0 that the progress grid holds exactly
StaleRun     == 2     \* frames without a sample that count as "a run of frames"

(* Program constants *)
K_NUM == 1            \* 0.05 = K_NUM / K_DEN
K_DEN == 20
CamXScale == 10       \* baseX + targetX * 10
CamYScale == 5        \* BaseY + targetY * 5
BaseYUnits == 2       \* BaseY = 2
InitCamY == 4         \* camera={{ position: [0, 4, 18] }}

Milli == 10^3                \* coordinate unit: 1/Milli
Scale == K_DEN^ExactSteps    \* progress unit: 1/Scale

Abs(n) == IF n < 0 THEN -n ELSE n

\* n / d rounded to the nearest integer (d > 0)
RoundDiv(n, d) == (2 * n + d) \div (2 * d)

RECURSIVE SqrtSearch(_, _, _)
SqrtSearch(n, lo, hi) ==
    IF lo >= hi THEN lo
    ELSE LET mid == (lo + hi + 1) \div 2
         IN  IF mid * mid <= n THEN SqrtSearch(n, mid, hi)
                               ELSE SqrtSearch(n, lo, mid - 1)

\* Math.sqrt on the fixed-point grid
Sqrt(n) == SqrtSearch(n, 0, 2 * Milli)

----------------------------------------------------------------------------
(* Gesture samples: GestureHandler.predict *)

Pt(x, y) == [x |-> x, y |-> y]

\* Hands the landmarker can report (the six landmarks predict reads).
OpenPalmCentre ==
    [wrist |-> Pt(500, 700), thumbTip |-> Pt(350, 300), indexTip |-> Pt(450, 250),
     middleTip |-> Pt(500, 230), ringTip |-> Pt(560, 260), pinkyTip |-> Pt(650, 350)]
OpenPalmLeft ==
    [wrist |-> Pt(800, 800), thumbTip |-> Pt(650, 400), indexTip |-> Pt(750, 350),
     middleTip |-> Pt(800, 330), ringTip |-> Pt(860, 360), pinkyTip |-> Pt(950, 450)]
FistRight ==
    [wrist |-> Pt(200, 600), thumbTip |-> Pt(140, 300), indexTip |-> Pt(200, 450),
     middleTip |-> Pt(220, 450), ringTip |-> Pt(240, 460), pinkyTip |-> Pt(260, 480)]

Hands == {OpenPalmCentre, OpenPalmLeft, FistRight}

Dist(a, b) == Sqrt((a.x - b.x) * (a.x - b.x) + (a.y - b.y) * (a.y - b.y))

\* avgDist > 0.3, avgDist = (sum of the four tip-to-wrist distances) / 4
IsOpenHand(h) ==
    LET sum == Dist(h.indexTip, h.wrist) + Dist(h.middleTip, h.wrist)
               + Dist(h.ringTip, h.wrist) + Dist(h.pinkyTip, h.wrist)
    IN  10 * sum > 3 * 4 * Milli

\* the sample predict passes to onGestureUpdate for a detected hand
\* x = -((thumb.x + pinky.x)/2 - 0.5) * 2,  y = -((thumb.y + wrist.y)/2 - 0.5) * 2
DetectedSample(h) ==
    [isOpen   |-> IsOpenHand(h),
     x        |-> -(h.thumbTip.x + h.pinkyTip.x - Milli),
     y        |-> -(h.thumbTip.y + h.wrist.y - Milli),
     detected |-> TRUE]

\* a not-detected sample that keeps the open flag set
NotDetectedSampleOpen == [isOpen |-> TRUE, x |-> 0, y |-> 0, detected |-> FALSE]

\* the sample predict passes when results.landmarks is empty
NotDetectedSample == [isOpen |-> FALSE, x |-> 0, y |-> 0, detected |-> FALSE]

\* useState initial value of gestureData
InitialGesture == [isOpen |-> FALSE, x |-> 0, y |-> 0, detected |-> FALSE]

\* what landmarker.detectForVideo can do on one frame
HandOutcomes == {[kind |-> "hand", hand |-> h] : h \in Hands}
NoHand       == [kind |-> "nohand", hand |-> OpenPalmCentre]
Throws       == [kind |-> "throws", hand |-> OpenPalmCentre]
Malformed    == [kind |-> "malformed", hand |-> OpenPalmCentre]
AllOutcomes  == HandOutcomes \cup {NoHand, Throws, Malformed}
SustainOutcomes == {[kind |-> "hand", hand |-> OpenPalmCentre]}

----------------------------------------------------------------------------
(* Arithmetic of the two filters *)

\* a smoothing constant of 1.05 instead of 0.05
ProgressStepOvershoot(p, target) ==
    p + RoundDiv((target * Scale - p) * (K_DEN + K_NUM), K_DEN)

\* a smoothing constant of 0.5 instead of 0.05
ProgressStepHalf(p, target) == p + RoundDiv(target * Scale - p, 2)

\* App.tsx:101  progressRef.current += (target - progressRef.current) * 0.05
ProgressStep(p, target) == p + RoundDiv((target * Scale - p) * K_NUM, K_DEN)

\* THREE.MathUtils.lerp(x, y, 0.05) = (1 - t) * x + t * y
Lerp(x, y) == RoundDiv((K_DEN - K_NUM) * x + K_NUM * y, K_DEN)

\* App.tsx:99  const target = gestureData.isOpen ? 1 : 0
TargetOf(isOpen) == IF isOpen THEN 1 ELSE 0

\* App.tsx:125-126  handX / handY props given to SceneContent
HandX(g) == IF g.detected THEN g.x ELSE 0
HandY(g) == IF g.detected THEN g.y ELSE 0

\* the value the last call of setGestureData asked for
LatestSample == IF pendingGesture # <<>> THEN pendingGesture[1] ELSE gestureData

Callback(fn, id, isOpen, gen) == [fn |-> fn, id |-> id, isOpen |-> isOpen, gen |-> gen]

\* cancelAnimationFrame(id)
Cancel(q, id) == SelectSeq(q, LAMBDA c : c.id # id)

----------------------------------------------------------------------------
\* The state once App has mounted: first render committed, the progress effect has
\* run once (loop() applied a step towards 0 and registered itself), the canvas
\* loop is registered, GestureHandler has started initMediaPipe.
AppInit ==
    /\ gestureData = InitialGesture
    /\ pendingGesture = <<>>
    /\ animProgress = 0
    /\ animDirty = FALSE
    /\ progressRef = 0
    /\ effectGen = 1
    /\ loopIsOpen = FALSE
    /\ loopRaf = 2
    /\ rafQueue = << Callback("r3f", 1, FALSE, 0), Callback("loop", 2, FALSE, 1) >>
    /\ running = <<>>
    /\ inFrame = FALSE
    /\ nextRafId = 3
    /\ camX = 0
    /\ camY = InitCamY * Milli
    /\ ghPhase = "loading"
    /\ landmarker = FALSE
    /\ closed = FALSE
    /\ unmounted = FALSE
    /\ videoTime = 0
    /\ lastVideoTime = -1
    /\ requestRef = 0
    /\ frameCount = 0
    /\ stepCount = 1
    /\ stepsSinceFrame = 0
    /\ lastTarget = 0
    /\ ticksAtTarget = 1
    /\ framesSinceSample = 0
    /\ lastOutcome = "none"
    /\ deliveredAt = <<>>

\* no entity set exists before the scene's first render
NoProps == [count |-> 0, type |-> "ball", palette |-> <<>>, paletteId |-> 0]
NoOutput == [p |-> 0, t |-> 0, orn |-> <<>>, photo |-> <<>>, fol |-> <<>>]
NoData == [orn |-> <<>>, fol |-> <<>>, photos |-> <<>>, photoChaos |-> <<>>]

\* orientation of a new THREE.Object3D: no rotation.  An orientation is the
\* Euler angles last set and the rotations applied about axes since, in order
Identity == [euler |-> <<0, 0, 0>>, turns |-> <<>>]

SceneInit ==
    /\ sceneStatus = "unmounted"
    /\ tempObj = Identity
    /\ ornRot = <<>>
    /\ photoRot = <<>>
    /\ ornProps = NoProps
    /\ ornMemo = [deps |-> NoProps, data |-> <<>>]
    /\ folData = <<>>
    /\ photos = <<>>
    /\ photoChaos = <<>>
    /\ sceneProgress = 0
    /\ clock = 0
    /\ frameOut = NoOutput
    /\ renderCount = 0
    /\ created = NoData

Seeds == {0, 137, 500}

Init == AppInit /\ SceneInit /\ rng = 0

\* bookkeeping of one smoothing step
RecordStep(target) ==
    /\ stepCount' = stepCount + 1
    /\ stepsSinceFrame' = stepsSinceFrame + 1
    /\ lastTarget' = target
    /\ ticksAtTarget' = IF target = lastTarget THEN ticksAtTarget + 1 ELSE 1

\* App.tsx:98-104  loop(), run by effect instance `gen` whose closure holds isOpen;
\* q is the callback queue it registers itself in
Loop(isOpen, gen, live, q) ==
    /\ progressRef' = ProgressStep(progressRef, TargetOf(isOpen))
    /\ animDirty' = (animDirty \/ progressRef' # animProgress)
    /\ rafQueue' = Append(q, Callback("loop", nextRafId, isOpen, gen))
    /\ nextRafId' = nextRafId + 1
    /\ loopRaf' = IF live THEN nextRafId ELSE loopRaf
    /\ RecordStep(TargetOf(isOpen))

\* App.tsx:96-107  the progress effect re-runs after a render that changed
\* gestureData.isOpen: cleanup of the previous run, then loop()
ProgressEffect ==
    /\ ~inFrame /\ ~unmounted
    /\ loopIsOpen # gestureData.isOpen
    /\ effectGen' = effectGen + 1
    /\ loopIsOpen' = gestureData.isOpen
    /\ Loop(gestureData.isOpen, effectGen + 1, TRUE, Cancel(rafQueue, loopRaf))
    /\ UNCHANGED <<gestureData, pendingGesture, animProgress, running, inFrame>>
    /\ UNCHANGED <<camVars, ghVars, histVars>>
    /\ UNCHANGED sceneVars

\* React commits the queued state updates (setGestureData, setAnimProgress);
\* pending passive effects are flushed before a new render.  The re-render of
\* the scene below App that comes with it is SceneRender.
Render ==
    /\ ~inFrame /\ ~unmounted
    /\ pendingGesture # <<>> \/ animDirty
    /\ loopIsOpen = gestureData.isOpen
    /\ gestureData' = LatestSample
    /\ pendingGesture' = <<>>
    /\ animProgress' = progressRef
    /\ animDirty' = FALSE
    /\ UNCHANGED <<loopVars, rafVars, camVars, ghVars, stepHist, histVars>>
    /\ UNCHANGED sceneVars

\* GestureHandler.tsx:59-114  predict, meeting detection outcome o;
\* q is the callback queue it registers itself in
Predict(o, q) ==
    IF unmounted \/ ~landmarker
    THEN \* !videoRef.current || !landmarkerRef.current: return
         /\ lastOutcome' = "noop"
         /\ rafQueue' = q
         /\ UNCHANGED <<pendingGesture, lastVideoTime, requestRef, nextRafId,
                        framesSinceSample, deliveredAt>>
    ELSE IF videoTime = lastVideoTime
    THEN /\ lastOutcome' = "skipped"
         /\ rafQueue' = Append(q, Callback("predict", nextRafId, FALSE, 0))
         /\ requestRef' = nextRafId
         /\ nextRafId' = nextRafId + 1
         /\ UNCHANGED <<pendingGesture, lastVideoTime, framesSinceSample, deliveredAt>>
    ELSE /\ lastVideoTime' = videoTime
         /\ IF o.kind \in {"throws", "malformed"}
            THEN \* detectForVideo throws / landmarks[4].x of undefined throws
                 /\ lastOutcome' = "threw"
                 /\ rafQueue' = q
                 /\ UNCHANGED <<pendingGesture, requestRef, nextRafId,
                                framesSinceSample, deliveredAt>>
            ELSE /\ lastOutcome' = "delivered"
                 /\ pendingGesture' = << IF o.kind = "hand"
                                         THEN DetectedSample(o.hand)
                                         ELSE NotDetectedSample >>
                 /\ framesSinceSample' = 0
                 /\ deliveredAt' = Append(deliveredAt, videoTime)
                 /\ rafQueue' = Append(q, Callback("predict", nextRafId, FALSE, 0))
                 /\ requestRef' = nextRafId
                 /\ nextRafId' = nextRafId + 1

\* the browser starts an animation frame: it runs the callbacks registered so far;
\* the video has advanced by dt \in dts new frames since the last one
FrameBegin(limit, dts) ==
    /\ ~inFrame
    /\ frameCount < limit
    /\ rafQueue # <<>>
    /\ inFrame' = TRUE
    /\ running' = rafQueue
    /\ rafQueue' = <<>>
    /\ frameCount' = frameCount + 1
    /\ stepsSinceFrame' = 0
    /\ framesSinceSample' = framesSinceSample + 1
    /\ \E dt \in dts : videoTime' = videoTime + dt
    /\ UNCHANGED <<appVars, loopVars, nextRafId, camVars, lastOutcome, deliveredAt>>
    /\ UNCHANGED <<ghPhase, landmarker, closed, unmounted, lastVideoTime, requestRef>>
    /\ UNCHANGED <<stepCount, lastTarget, ticksAtTarget>>
    /\ UNCHANGED sceneVars

\* the frame runs a loop callback of the progress effect
RunLoop ==
    /\ inFrame /\ running # <<>> /\ Head(running).fn = "loop"
    /\ running' = Tail(running)
    /\ Loop(Head(running).isOpen, Head(running).gen,
            Head(running).gen = effectGen, rafQueue)
    /\ UNCHANGED <<gestureData, pendingGesture, animProgress, effectGen, loopIsOpen>>
    /\ UNCHANGED <<inFrame, camVars, ghVars, histVars>>
    /\ UNCHANGED sceneVars

\* the frame runs predict
RunPredict(outcomes) ==
    /\ inFrame /\ running # <<>> /\ Head(running).fn = "predict"
    /\ running' = Tail(running)
    /\ \E o \in outcomes : Predict(o, rafQueue)
    /\ UNCHANGED <<gestureData, animProgress, animDirty, loopVars, inFrame>>
    /\ UNCHANGED <<camVars, ghPhase, landmarker, closed, unmounted, videoTime,
                   stepHist, frameCount>>
    /\ UNCHANGED sceneVars

\* App.tsx:18-32  the frame runs the canvas loop: CameraRig's useFrame
RunCameraRig ==
    /\ inFrame /\ running # <<>> /\ Head(running).fn = "r3f"
    /\ running' = Tail(running)
    \* the useFrame subscription of CameraRig ends with the unmount
    /\ camX' = IF unmounted THEN camX ELSE Lerp(camX, CamXScale * HandX(gestureData))
    /\ camY' = IF unmounted THEN camY
               ELSE Lerp(camY, BaseYUnits * Milli + CamYScale * HandY(gestureData))
    /\ rafQueue' = Append(rafQueue, Callback("r3f", nextRafId, FALSE, 0))
    /\ nextRafId' = nextRafId + 1
    /\ UNCHANGED <<appVars, loopVars, inFrame, ghVars, stepHist, histVars>>
    /\ UNCHANGED sceneVars

\* all callbacks of the frame have run
FrameEnd ==
    /\ inFrame /\ running = <<>>
    /\ inFrame' = FALSE
    /\ UNCHANGED <<appVars, loopVars, rafQueue, running, nextRafId>>
    /\ UNCHANGED <<camVars, ghVars, stepHist, histVars>>
    /\ UNCHANGED sceneVars

\* GestureHandler.tsx:16-32  initMediaPipe resolves: landmarker created, startCamera()
MediaPipeLoaded ==
    /\ ~inFrame /\ ghPhase = "loading"
    /\ landmarker' = TRUE
    \* startCamera: if (!videoRef.current) return
    /\ ghPhase' = IF unmounted THEN "stopped" ELSE "camera"
    /\ UNCHANGED <<closed, unmounted>>
    /\ UNCHANGED <<appVars, loopVars, rafVars, camVars, stepHist, histVars>>
    /\ UNCHANGED <<videoTime, lastVideoTime, requestRef>>
    /\ UNCHANGED sceneVars

\* GestureHandler.tsx:33-35  initMediaPipe rejects
MediaPipeFailed ==
    /\ ~inFrame /\ ghPhase = "loading"
    /\ ghPhase' = "failed"
    /\ UNCHANGED <<appVars, loopVars, rafVars, camVars, stepHist, histVars>>
    /\ UNCHANGED <<landmarker, closed, unmounted, videoTime, lastVideoTime, requestRef>>
    /\ UNCHANGED sceneVars

\* GestureHandler.tsx:49-53  getUserMedia resolves: the loadeddata listener is added
CameraGranted ==
    /\ ~inFrame /\ ghPhase = "camera"
    \* after unmount videoRef.current.srcObject = stream throws, and is caught
    /\ ghPhase' = IF unmounted THEN "failed" ELSE "listening"
    /\ UNCHANGED <<appVars, loopVars, rafVars, camVars, stepHist, histVars>>
    /\ UNCHANGED <<landmarker, closed, unmounted, videoTime, lastVideoTime, requestRef>>
    /\ UNCHANGED sceneVars

\* GestureHandler.tsx:54-56  getUserMedia rejects
CameraDenied ==
    /\ ~inFrame /\ ghPhase = "camera"
    /\ ghPhase' = "failed"
    /\ UNCHANGED <<appVars, loopVars, rafVars, camVars, stepHist, histVars>>
    /\ UNCHANGED <<landmarker, closed, unmounted, videoTime, lastVideoTime, requestRef>>
    /\ UNCHANGED sceneVars

\* GestureHandler.tsx:53  the video fires loadeddata: predict runs as its listener
LoadedData(outcomes) ==
    /\ ~inFrame /\ ghPhase = "listening"
    /\ ghPhase' = "running"
    /\ \E o \in outcomes : Predict(o, rafQueue)
    /\ UNCHANGED <<gestureData, animProgress, animDirty, loopVars, running, inFrame>>
    /\ UNCHANGED <<camVars, landmarker, closed, unmounted, videoTime, stepHist,
                   frameCount>>
    /\ UNCHANGED sceneVars

\* the root unmounts: React runs the effect cleanups of App (App.tsx:106) and of
\* GestureHandler (GestureHandler.tsx:40-43) and sets the refs of elements to null
Unmount ==
    /\ ~inFrame /\ ~unmounted
    /\ unmounted' = TRUE
    /\ rafQueue' = Cancel(Cancel(rafQueue, loopRaf), requestRef)
    \* landmarkerRef.current?.close()
    /\ closed' = landmarker
    /\ UNCHANGED <<appVars, loopVars, running, inFrame, nextRafId, camVars>>
    /\ UNCHANGED <<ghPhase, landmarker, videoTime, lastVideoTime, requestRef>>
    /\ UNCHANGED <<stepHist, histVars>>
    /\ UNCHANGED sceneVars

Next ==
    \/ ProgressEffect
    \/ Render
    \/ FrameBegin(MaxFrames, {0, 1})
    \/ RunLoop
    \/ RunPredict(AllOutcomes)
    \/ RunCameraRig
    \/ FrameEnd
    \/ MediaPipeLoaded
    \/ MediaPipeFailed
    \/ CameraGranted
    \/ CameraDenied
    \/ LoadedData(AllOutcomes)

Spec == Init /\ [][Next]_vars

\* the same program when the root may unmount at any moment between frames
UnmountNext == Next \/ Unmount

UnmountSpec == Init /\ [][UnmountNext]_vars


\* Scenario "open palm sustained": the camera and the model load, every animation
\* frame has a new video frame whose detection reports the centred open palm, and
\* React renders and flushes effects between frames.
ReactIdle ==
    /\ pendingGesture = <<>> /\ ~animDirty
    /\ loopIsOpen = gestureData.isOpen

SustainNext ==
    \/ ProgressEffect
    \/ Render
    \/ (ReactIdle /\ ghPhase = "running" /\ FrameBegin(SustainTicks + 2, {1}))
    \/ RunLoop
    \/ RunPredict(SustainOutcomes)
    \/ RunCameraRig
    \/ FrameEnd
    \/ MediaPipeLoaded
    \/ CameraGranted
    \/ LoadedData(SustainOutcomes)

SustainSpec == Init /\ [][SustainNext]_vars

----------------------------------------------------------------------------
(* Entity sets: Foliage, Ornaments, Polaroids *)

\* a JavaScript number or GLSL float keeps Mant significant units: a value v
\* with Mant * u / 2 <= |v| < Mant * u is a multiple of u (u a power of two)
Mant == 2^11

RECURSIVE UlpFrom(_, _)
UlpFrom(a, u) == IF a < Mant * u THEN u ELSE UlpFrom(a, 2 * u)

\* the spacing of representable values at magnitude |v|
Ulp(v) == UlpFrom(Abs(v), 1)

\* the representable value nearest to v, ties to the even multiple
Fl(v) ==
    LET u == Ulp(v)
        q == (v - (v % u)) \div u
        r == v % u
    IN  IF 2 * r < u THEN q * u
        ELSE IF 2 * r > u THEN (q + 1) * u
        ELSE IF q % 2 = 0 THEN q * u ELSE (q + 1) * u

\* new THREE.Vector3(x, y, z): every component is a stored number
Vec(x, y, z) == [x |-> Fl(x), y |-> Fl(y), z |-> Fl(z)]

\* Math.random(): a generator whose state advances with every call; the value
\* drawn is state / Milli, in [0, 1)
NextRng(s) == (21 * s + 7) % Milli

\* NextRng as a table, and its 2-, 4-, 8-, 16- and 32-fold iterates
Twice(f) == [s \in DOMAIN f |-> f[f[s]]]
RngStep   == [s \in 0..(Milli - 1) |-> NextRng(s)]
RngStep2  == Twice(RngStep)
RngStep4  == Twice(RngStep2)
RngStep8  == Twice(RngStep4)
RngStep16 == Twice(RngStep8)
RngStep32 == Twice(RngStep16)

RECURSIVE Draw(_, _)
\* the k-th value drawn after state s
Draw(s, k) ==
    IF k >= 32 THEN Draw(RngStep32[s], k - 32)
    ELSE IF k >= 16 THEN Draw(RngStep16[s], k - 16)
    ELSE IF k >= 8 THEN Draw(RngStep8[s], k - 8)
    ELSE IF k >= 4 THEN Draw(RngStep4[s], k - 4)
    ELSE IF k >= 2 THEN Draw(RngStep2[s], k - 2)
    ELSE IF k >= 1 THEN RngStep[s]
    ELSE s

\* Math.sin / Math.cos of an angle in milli-radians, evaluated at the angle
\* rounded down to a multiple of pi/2; the result is in units of 1/Milli
Quadrant(a) == (a \div 1571) % 4
Sin(a) == CASE Quadrant(a) = 0 -> 0 [] Quadrant(a) = 1 -> Milli
            [] Quadrant(a) = 2 -> 0 [] OTHER -> -Milli
Cos(a) == CASE Quadrant(a) = 0 -> Milli [] Quadrant(a) = 1 -> 0
            [] Quadrant(a) = 2 -> -Milli [] OTHER -> 0

\* u * Math.PI * 2
Turn(u) == RoundDiv(u * 6283, Milli)

\* a * b for fixed-point a, b
Mul(a, b) == RoundDiv(a * b, Milli)

\* d * p for a progress p in units of 1/Scale
MulProgress(d, p) ==
    LET G == K_DEN^3
    IN  RoundDiv(d * (p \div G) + RoundDiv(d * (p % G), G), Scale \div G)

\* v1 + (v2 - v1) * alpha, per component: THREE.Vector3.lerpVectors; the
\* difference, the product and the sum are each rounded to a number
LerpVectorsSwapped(v1, v2, alpha) ==
    Vec(v2.x + Fl(MulProgress(Fl(v1.x - v2.x), alpha)),
        v2.y + Fl(MulProgress(Fl(v1.y - v2.y), alpha)),
        v2.z + Fl(MulProgress(Fl(v1.z - v2.z), alpha)))

LerpVectors(v1, v2, alpha) ==
    Vec(v1.x + Fl(MulProgress(Fl(v2.x - v1.x), alpha)),
        v1.y + Fl(MulProgress(Fl(v2.y - v1.y), alpha)),
        v1.z + Fl(MulProgress(Fl(v2.z - v1.z), alpha)))

\* a point of the spherical shell: radius R, theta = Turn(ut), phi = acos(2 up - 1)
ShellPoint(R, ut, up) ==
    LET cosPhi == 2 * up - Milli
        sinPhi == Sqrt(Milli * Milli - cosPhi * cosPhi)
    IN  Vec(Mul(Mul(R, sinPhi), Cos(Turn(ut))),
            Mul(Mul(R, sinPhi), Sin(Turn(ut))),
            Mul(R, cosPhi))

\* Ornaments data useMemo, one entity, drawn after generator state s
OrnamentEntity(s, palette) ==
    LET treeHeight == 12 * Milli
        maxRadius  == 5500
        y      == Mul(Draw(s, 1), treeHeight)
        rAtY   == RoundDiv((treeHeight - y) * maxRadius, treeHeight)
        angle  == Turn(Draw(s, 2))
        r      == Mul(rAtY, 800 + RoundDiv(3 * Draw(s, 3), 10))
        chaosRadius == 10 * Milli + 15 * Draw(s, 4)
        ax     == Vec(Draw(s, 9), Draw(s, 10), Draw(s, 11))
        len    == Sqrt(ax.x * ax.x + ax.y * ax.y + ax.z * ax.z)
        n      == IF len = 0 THEN Milli ELSE len
        idx    == (Draw(s, 12) * Len(palette)) \div Milli
    IN  [formPos  |-> Vec(Mul(r, Cos(angle)), y - treeHeight \div 3, Mul(r, Sin(angle))),
         chaosPos |-> ShellPoint(chaosRadius, Draw(s, 5), Draw(s, 6)),
         scale    |-> 300 + RoundDiv(4 * Draw(s, 7), 10),
         rotSpeed |-> (Draw(s, 8) - Milli \div 2) * 2,
         rotAxis  |-> Vec(RoundDiv(ax.x * Milli, n), RoundDiv(ax.y * Milli, n),
                           RoundDiv(ax.z * Milli, n)),
         \* colorPalette[i] of an empty palette is undefined: THREE.Color keeps
         \* its default
         color    |-> IF idx + 1 <= Len(palette) THEN palette[idx + 1] ELSE "default",
         randomOffset |-> 100 * Draw(s, 13)]

OrnamentDraws == 13

RECURSIVE OrnamentEntities(_, _, _)
\* new Array(count).fill(0).map(...)
OrnamentEntities(count, s, palette) ==
    IF count = 0 THEN <<>>
    ELSE <<OrnamentEntity(s, palette)>>
         \o OrnamentEntities(count - 1, Draw(s, OrnamentDraws), palette)

\* Foliage useMemo, one point, drawn after generator state s
FoliagePoint(s) ==
    LET treeHeight == 14 * Milli
        maxRadius  == 5 * Milli
        y      == Mul(Draw(s, 1), treeHeight)
        radiusAtY == RoundDiv((treeHeight - y) * maxRadius, treeHeight)
        angle  == Turn(Draw(s, 2))
        r      == Mul(Sqrt(Draw(s, 3) * Milli), radiusAtY)
        chaosRadius == 15 * Milli + 10 * Draw(s, 4)
    IN  [position |-> Vec(Mul(r, Cos(angle)), y - treeHeight \div 3, Mul(r, Sin(angle))),
         aChaosPos |-> ShellPoint(chaosRadius, Draw(s, 5), Draw(s, 6)),
         aRandom  |-> Draw(s, 7)]

FoliageDraws == 7

RECURSIVE FoliagePoints(_, _)
FoliagePoints(count, s) ==
    IF count = 0 THEN <<>>
    ELSE <<FoliagePoint(s)>> \o FoliagePoints(count - 1, Draw(s, FoliageDraws))

PhotoCount == 12
PhotoTreeHeight == 10 * Milli    \* Polaroids.tsx:75  treeHeight = 10
PhotoMaxRadius == 4500           \* Polaroids.tsx:76  maxRadius = 4.5

\* Polaroids photos useMemo: item i (0-based), randomOffset drawn after state s
PhotoItem(i, s) ==
    LET treeHeight == PhotoTreeHeight
        maxRadius  == PhotoMaxRadius
        y     == RoundDiv(i * treeHeight, PhotoCount) - RoundDiv(treeHeight, 3)
        r     == Mul(Mul(RoundDiv((RoundDiv(treeHeight, 3) + y + 4 * Milli) * Milli,
                                  treeHeight), maxRadius), 1100)
        angle == i * 1500
    IN  [position |-> Vec(Mul(r, Cos(angle)), y, Mul(r, Sin(angle))),
         radius   |-> r,
         rotationY |-> -angle + 1571,
         randomOffset |-> 100 * Draw(s, i + 1)]

\* Photo chaosPos useMemo of photo i, drawn after generator state s
PhotoChaos(i, s) ==
    LET r     == 20 * Milli + 10 * Draw(s, 3 * i + 1)
        theta == Turn(Draw(s, 3 * i + 2))
        y     == (Draw(s, 3 * i + 3) - Milli \div 2) * 20
    IN  Vec(Mul(r, Cos(theta)), y, Mul(r, Sin(theta)))

----------------------------------------------------------------------------
(* The scene: creation, re-render and canvas frame of the entity sets *)

\* configurations an Ornaments instance can be created with
OrnCounts == -1..MaxOrnaments
Palettes == { <<>>, <<"#FFD700", "#C0C0C0">>, <<"#800000", "#004225", "#FFFFFF">> }
OrnTypes == {"ball", "gift"}

\* values of the progress prop
ProgressLevels == {0, Scale \div 4, Scale \div 2, Scale \div 2 + 1, Scale}

\* values of the canvas clock, in milli-seconds
Times == {1000, 1571, 3142}

\* useMemo deps compared with Object.is: count and type by value, the
\* colorPalette array by identity
SameDeps(a, b) == a.count = b.count /\ a.type = b.type /\ a.paletteId = b.paletteId

\* first render of the scene with Ornaments props (count, type, palette):
\* Foliage, Ornaments, Polaroids and the Photos generate their data in this
\* order, then the layout effect of Ornaments colors the instances
MountScene(count, type, palette) ==
    /\ sceneStatus = "unmounted"
    /\ LET props == [count |-> count, type |-> type, palette |-> palette,
                     paletteId |-> 1]
           s1 == Draw(rng, FoliageCount * FoliageDraws)
           s2 == Draw(s1, count * OrnamentDraws)
           s3 == Draw(s2, PhotoCount)
       IN  IF count < 0
           THEN \* new Array(count) throws RangeError
                /\ sceneStatus' = "error"
                /\ rng' = s1
                /\ UNCHANGED <<ornProps, ornMemo, folData, photos, photoChaos, created,
                               ornRot, photoRot>>
           ELSE IF count = 0
           THEN \* the render completes; the layout effect sets no color, so
                \* instanceColor is still null and instanceColor.needsUpdate
                \* throws TypeError: the tree is discarded
                /\ sceneStatus' = "error"
                /\ rng' = Draw(s3, 3 * PhotoCount)
                /\ UNCHANGED <<ornProps, ornMemo, folData, photos, photoChaos, created,
                               ornRot, photoRot>>
           ELSE /\ sceneStatus' = "mounted"
                /\ ornProps' = props
                /\ folData' = FoliagePoints(FoliageCount, rng)
                /\ ornMemo' = [deps |-> props,
                               data |-> OrnamentEntities(count, s1, palette)]
                /\ photos' = [i \in 1..PhotoCount |-> PhotoItem(i - 1, s2)]
                /\ photoChaos' = [i \in 1..PhotoCount |-> PhotoChaos(i - 1, s3)]
                /\ rng' = Draw(s3, 3 * PhotoCount)
                /\ created' = [orn |-> ornMemo'.data, fol |-> folData',
                               photos |-> photos', photoChaos |-> photoChaos']
                /\ ornRot' = [i \in 1..count |-> Identity]
                /\ photoRot' = [i \in 1..PhotoCount |-> <<0, photos'[i].rotationY, 0>>]
    /\ tempObj' = Identity
    /\ UNCHANGED <<sceneProgress, clock, frameOut, renderCount>>
    /\ UNCHANGED pipeVars

\* App re-renders with progress p: SceneContent passes the same count and type
\* and a new colorPalette array literal with the same contents; the useMemo of
\* Ornaments recomputes when a dep differs, those with [] deps keep their value
SceneRender(p) ==
    /\ sceneStatus = "mounted"
    /\ renderCount < MaxRenders
    /\ renderCount' = renderCount + 1
    /\ sceneProgress' = p
    /\ LET props == [ornProps EXCEPT !.paletteId = ornProps.paletteId + 1]
       IN  /\ ornProps' = props
           /\ IF SameDeps(ornMemo.deps, props)
              THEN UNCHANGED <<ornMemo, rng>>
              ELSE /\ ornMemo' = [deps |-> props,
                                  data |-> OrnamentEntities(props.count, rng,
                                                            props.palette)]
                   /\ rng' = Draw(rng, props.count * OrnamentDraws)
    \* GestureHandler.tsx:149  the component body makes a new tempObj
    /\ tempObj' = Identity
    /\ UNCHANGED <<sceneStatus, folData, photos, photoChaos, clock, frameOut, created,
                   ornRot, photoRot>>
    /\ UNCHANGED pipeVars

\* Math.sin(t + randomOffset) * 0.1, the floating noise of an ornament
OrnamentNoise(d, t) == Mul(Sin(t + d.randomOffset), 100)

\* Math.sin(t + randomOffset) * 0.2, the floating noise of a photo
PhotoNoise(item, t) == Mul(Sin(t + item.randomOffset), 200)

\* position.y += noise
AddY(v, n) == Vec(v.x, v.y + n, v.z)

\* GestureHandler.tsx:204-216  Ornaments useFrame: position of entity d
OrnamentPosition(d, p, t) ==
    AddY(LerpVectors(d.formPos, d.chaosPos, p), OrnamentNoise(d, t))

\* Polaroids.tsx:20-30  Photo useFrame: position
PhotoPosition(item, chaosPos, p, t) ==
    AddY(LerpVectors(item.position, chaosPos, p), PhotoNoise(item, t))

\* the vertex shader computes in single precision: progress on the 1/Milli grid
ToShader(p) == RoundDiv(p, Scale \div Milli)

\* GLSL smoothstep(0.0, 1.0, x)
Smoothstep(x) ==
    LET c == IF x < 0 THEN 0 ELSE IF x > Milli THEN Milli ELSE x
    IN  Mul(Mul(c, c), 3 * Milli - 2 * c)

\* GLSL mix(a, b, t) = a * (1 - t) + b * t
Mix(a, b, t) == Fl(Fl(Mul(a, Milli - t)) + Fl(Mul(b, t)))

\* Foliage.tsx:27-32  aChaosPos plus the shader noise
ChaosMovement(d, time) ==
    Vec(d.aChaosPos.x + Mul(Sin(time \div 2 + 10 * d.aRandom), 500),
        d.aChaosPos.y + Mul(Cos(RoundDiv(3 * time, 10) + 20 * d.aRandom), 500),
        d.aChaosPos.z + Mul(Sin(RoundDiv(7 * time, 10) + 30 * d.aRandom), 500))

\* Foliage.tsx:21-35  vertex shader: finalPos of point d
FoliagePosition(d, p, time) ==
    LET t == Smoothstep(ToShader(p))
        chaosMovement == ChaosMovement(d, time)
    IN  Vec(Mix(d.position.x, chaosMovement.x, t),
            Mix(d.position.y, chaosMovement.y, t),
            Mix(d.position.z, chaosMovement.z, t))

\* Object3D.rotateOnAxis(axis, angle): a further rotation of the orientation o
RotateOnAxis(o, axis, angle) ==
    [o EXCEPT !.turns = Append(@, [axis |-> axis, angle |-> angle])]

\* Object3D.rotation.set(x, y, z): the orientation is replaced
RotationSet(x, y, z) == [euler |-> <<x, y, z>>, turns |-> <<>>]

\* GestureHandler.tsx:218-225  rotation logic for entity d on orientation o
OrnamentRotate(o, d, p, t) ==
    IF 2 * p > Scale
    THEN RotateOnAxis(o, d.rotAxis, RoundDiv(d.rotSpeed, 10))
    ELSE RotationSet(0, Mul(t, 200) + d.randomOffset, 0)

RECURSIVE TempObjAfter(_, _, _, _, _)
\* orientation of the shared tempObj once data.forEach has handled entities 1..i
TempObjAfter(o, data, i, p, t) ==
    IF i = 0 THEN o
    ELSE OrnamentRotate(TempObjAfter(o, data, i - 1, p, t), data[i], p, t)

\* THREE.MathUtils.lerp(x, y, t) = (1 - t) * x + t * y with t the progress
LerpProgress(x, y, p) == MulProgress(x, Scale - p) + MulProgress(y, p)

\* Polaroids.tsx:32-47  Photo useFrame: rotation
PhotoRotation(item, p, t) ==
    LET targetRot == <<Mul(Sin(t), 100), item.rotationY + Mul(Cos(t), 100), 0>>
        chaosRot  == <<RoundDiv(t, 2) + item.randomOffset, RoundDiv(3 * t, 10),
                       RoundDiv(t, 5)>>
    IN  [k \in 1..3 |-> LerpProgress(targetRot[k], chaosRot[k], p)]

\* the canvas runs the useFrame callbacks of Foliage, Ornaments and every Photo at
\* clock time t with the progress prop of the last render
SceneFrame(t) ==
    /\ sceneStatus = "mounted"
    /\ t > clock
    /\ clock' = t
    /\ frameOut' =
          [p |-> sceneProgress, t |-> t,
           orn |-> [i \in 1..Len(ornMemo.data) |->
                       OrnamentPosition(ornMemo.data[i], sceneProgress, t)],
           photo |-> [i \in 1..Len(photos) |->
                       PhotoPosition(photos[i], photoChaos[i], sceneProgress, t)],
           fol |-> [i \in 1..Len(folData) |->
                       FoliagePosition(folData[i], sceneProgress, t)]]
    /\ ornRot' = [i \in 1..Len(ornMemo.data) |->
                     TempObjAfter(tempObj, ornMemo.data, i, sceneProgress, t)]
    /\ tempObj' = TempObjAfter(tempObj, ornMemo.data, Len(ornMemo.data),
                               sceneProgress, t)
    /\ photoRot' = [i \in 1..Len(photos) |-> PhotoRotation(photos[i], sceneProgress, t)]
    /\ UNCHANGED <<rng, sceneStatus, ornProps, ornMemo, folData, photos, photoChaos,
                   sceneProgress, renderCount, created>>
    /\ UNCHANGED pipeVars

EntityInit == AppInit /\ SceneInit /\ rng \in Seeds

EntityNext ==
    \/ \E count \in OrnCounts, type \in OrnTypes, palette \in Palettes :
           MountScene(count, type, palette)
    \/ \E p \in ProgressLevels : SceneRender(p)
    \/ \E t \in Times : SceneFrame(t)

EntitySpec == EntityInit /\ [][EntityNext]_vars

----------------------------------------------------------------------------
(* Properties *)

\* the target section 4.1 derives from a sample
SampleTarget(g) == IF g.detected THEN (IF g.isOpen THEN 1 ELSE 0) ELSE 0

\* the latest sample is rendered and the progress effect has run for it
Settled ==
    /\ pendingGesture = <<>>
    /\ loopIsOpen = gestureData.isOpen

PendingCallbacks == rafQueue \o running
PendingOf(fn) == {i \in 1..Len(PendingCallbacks) : PendingCallbacks[i].fn = fn}

\* C1: after every tick, under every interleaving of frames and gesture samples,
\* the smoothed progress (the ref and the rendered state) lies within [0,1].
C1_ProgressWithinUnit ==
    /\ 0 <= progressRef /\ progressRef <= Scale
    /\ 0 <= animProgress /\ animProgress <= Scale

\* progress rose towards CHAOS and is now falling back towards FORMED
C1_Witness ==
    /\ stepCount >= 3 /\ lastTarget = 0
    /\ 0 < progressRef /\ progressRef < Scale
    /\ animProgress = progressRef

Exceeds999(p) == Scale - p < Scale \div 1000

\* C3 (as claimed): with a constant target every tick multiplies the distance to
\* the target by exactly 0.95, so the distance strictly decreases while non-zero.
C3_ExactGeometric ==
    [][stepCount' # stepCount =>
        LET T  == lastTarget' * Scale
            d  == Abs(progressRef - T)
            d2 == Abs(progressRef' - T)
        IN  /\ K_DEN * d2 = (K_DEN - K_NUM) * d
            /\ (d # 0 => d2 < d)]_vars

\* C3 (amended): every tick multiplies the distance to its target by 0.95 up to
\* rounding to the nearest representable value (exactly when the product is
\* representable), the distance never grows and strictly decreases while it is at
\* least K_DEN units; with the open palm sustained progress exceeds 0.999 once
\* SustainTicks ticks went to target 1.
C3_RoundedGeometric ==
    /\ [][stepCount' # stepCount =>
            LET T  == lastTarget' * Scale
                d  == Abs(progressRef - T)
                d2 == Abs(progressRef' - T)
            IN  /\ 2 * Abs(K_DEN * d2 - (K_DEN - K_NUM) * d) <= K_DEN
                /\ (d % K_DEN = 0 => K_DEN * d2 = (K_DEN - K_NUM) * d)
                /\ d2 <= d
                /\ (d >= K_DEN => d2 < d)]_vars
    /\ [](lastTarget = 1 /\ ticksAtTarget >= SustainTicks
            => Exceeds999(progressRef))

\* SustainTicks ticks towards CHAOS have run since the open palm appeared
C3_Witness ==
    /\ lastTarget = 1 /\ ticksAtTarget >= SustainTicks
    /\ Exceeds999(progressRef) /\ progressRef < Scale

\* the data of an ornament that the scene keeps from creation on
StaticOf(d) == [formPos |-> d.formPos, chaosPos |-> d.chaosPos,
                color |-> d.color, scale |-> d.scale]
StaticSeq(ds) == [i \in 1..Len(ds) |-> StaticOf(ds[i])]

\* C4 (as claimed): while the scene is mounted with unchanged count, type and
\* palette contents, the static data and the count of every entity set are those
\* generated at creation, whatever renders and frames happened since.
C4_StaticDataStable ==
    sceneStatus = "mounted"
        => /\ StaticSeq(ornMemo.data) = StaticSeq(created.orn)
           /\ folData = created.fol
           /\ photos = created.photos
           /\ photoChaos = created.photoChaos

\* C5 (as claimed): after a run of frames in which the running gesture loop
\* delivered no new sample, the aim given to the camera is (0,0) and the target
\* is FORMED.
C5_NoStaleHold ==
    (framesSinceSample > StaleRun /\ lastOutcome = "skipped" /\ Settled /\ ~inFrame)
        => /\ HandX(gestureData) = 0 /\ HandY(gestureData) = 0
           /\ lastTarget = 0

\* C6 (as claimed): no more than one smoothing step is applied per animation
\* frame, and at most one loop callback is pending.
C6_OneStepPerFrame ==
    /\ stepsSinceFrame <= 1
    /\ Cardinality(PendingOf("loop")) <= 1

\* C7 (as claimed): no tick moves progress towards a target other than the one
\* of the most recently delivered sample.
C7_TickUsesLatestSample ==
    [][(stepCount' # stepCount /\ progressRef' # progressRef)
            => lastTarget' = SampleTarget(LatestSample)]_vars

\* v and w differ by at most the given amount in each component
Near(v, w, tolx, toly, tolz) ==
    /\ Abs(v.x - w.x) <= tolx
    /\ Abs(v.y - w.y) <= toly
    /\ Abs(v.z - w.z) <= tolz

\* the frame that has just run put every ornament and photo at its formed
\* (end = 0) or chaos (end = 1) position plus its noise, to within the given
\* number of rounding units, and every foliage point at its position (end = 0)
\* or at its chaos position plus the shader noise (end = 1)
FrameAtEndpoint(end, units) ==
    /\ \A i \in 1..Len(ornMemo'.data) :
          LET d == ornMemo'.data[i]
              f == d.formPos
              c == d.chaosPos
              n == OrnamentNoise(d, clock')
          IN  Near(frameOut'.orn[i], AddY(IF end = 0 THEN f ELSE c, n),
                   units * Ulp(Abs(f.x) + Abs(c.x)),
                   units * Ulp(Abs(f.y) + Abs(c.y) + Abs(n)),
                   units * Ulp(Abs(f.z) + Abs(c.z)))
    /\ \A i \in 1..Len(photos') :
          LET f == photos'[i].position
              c == photoChaos'[i]
              n == PhotoNoise(photos'[i], clock')
          IN  Near(frameOut'.photo[i], AddY(IF end = 0 THEN f ELSE c, n),
                   units * Ulp(Abs(f.x) + Abs(c.x)),
                   units * Ulp(Abs(f.y) + Abs(c.y) + Abs(n)),
                   units * Ulp(Abs(f.z) + Abs(c.z)))
    /\ \A i \in 1..Len(folData') :
          frameOut'.fol[i] = IF end = 0 THEN folData'[i].position
                             ELSE ChaosMovement(folData'[i], clock')

\* C8 (as claimed): a frame at progress 0 puts every entity exactly at its formed
\* position plus at most the noise, a frame at progress 1 exactly at its chaos
\* position plus the noise.
C8_EndpointsExact ==
    [][clock' # clock =>
          /\ (frameOut'.p = 0 => FrameAtEndpoint(0, 0))
          /\ (frameOut'.p = Scale => FrameAtEndpoint(1, 0))]_vars

\* C8 (amended): a frame at progress 0 puts every entity exactly at its formed
\* position plus at most the noise; a frame at progress 1 puts every foliage
\* point exactly at its chaos position plus the noise, and every ornament and
\* photo at its chaos position plus the noise to within one rounding unit of the
\* interpolation v1 + (v2 - v1) * 1.
C8_EndpointsRounded ==
    [][clock' # clock =>
          /\ (frameOut'.p = 0 => FrameAtEndpoint(0, 0))
          /\ (frameOut'.p = Scale => FrameAtEndpoint(1, 1))]_vars

\* a frame ran at progress 1 with ornaments present, and left a photo one
\* rounding unit off its chaos position plus noise
C8_Witness ==
    /\ sceneStatus = "mounted" /\ clock > 0
    /\ frameOut.p = Scale /\ Len(frameOut.orn) > 0
    /\ \E i \in 1..Len(photos) :
          frameOut.photo[i] # AddY(photoChaos[i], PhotoNoise(photos[i], clock))

\* C9 (as claimed): an Ornaments set is never created from count <= 0 or from an
\* empty palette: a mounted set has entities, each with a color of the palette.
C9_InvalidConfigRejected ==
    sceneStatus = "mounted"
        => /\ ornProps.count > 0 /\ Len(ornProps.palette) > 0
           /\ Len(ornMemo.data) > 0
           /\ \A i \in 1..Len(ornMemo.data) : ornMemo.data[i].color # "default"

\* C11 (as claimed): on every frame every ornament's orientation is, for
\* progress > 0.5, its own previous orientation turned about its own axis by its
\* own speed, and for progress <= 0.5 the absolute rotation from elapsed time and
\* its phase offset about the Y axis; every photo's rotation is that of one of the
\* two regimes, switched at 0.5 and never a blend of them.
C11_HardSwitchOwnOrientation ==
    [][clock' # clock =>
          /\ \A i \in 1..Len(ornMemo'.data) :
                LET d == ornMemo'.data[i]
                IN  ornRot'[i] =
                        IF 2 * sceneProgress' > Scale
                        THEN RotateOnAxis(ornRot[i], d.rotAxis, RoundDiv(d.rotSpeed, 10))
                        ELSE RotationSet(0, Mul(clock', 200) + d.randomOffset, 0)
          /\ \A i \in 1..Len(photos') :
                photoRot'[i] =
                    PhotoRotation(photos'[i],
                                  IF 2 * sceneProgress' > Scale THEN Scale ELSE 0,
                                  clock')]_vars

\* height above the base of the tree of photo i (1-based): y + treeHeight / 3
PhotoHeight(i) == photos[i].position.y + RoundDiv(PhotoTreeHeight, 3)

\* C12 (as claimed): photo i (0-based) is formed at height
\* y = (i / count) * treeHeight - treeHeight / 3, its radius is proportional to
\* the cone taper (treeHeight - height) / treeHeight * maxRadius, so the radius
\* does not increase with the height and the highest photo has the smallest.
C12_SpiralTaper ==
    sceneStatus = "mounted" =>
        /\ \A i \in 1..PhotoCount :
              photos[i].position.y =
                  Fl(RoundDiv((i - 1) * PhotoTreeHeight, PhotoCount)
                     - RoundDiv(PhotoTreeHeight, 3))
        /\ \A i, j \in 1..PhotoCount :
              /\ Abs(photos[i].radius * (PhotoTreeHeight - PhotoHeight(j))
                     - photos[j].radius * (PhotoTreeHeight - PhotoHeight(i)))
                   <= PhotoTreeHeight
              /\ (PhotoHeight(i) <= PhotoHeight(j)
                     => photos[i].radius >= photos[j].radius)
        /\ \A i \in 1..PhotoCount : photos[PhotoCount].radius <= photos[i].radius

\* this step is a run of predict: as a frame callback or as loadeddata listener
PredictRan ==
    \/ /\ inFrame /\ running # <<>> /\ Head(running).fn = "predict"
       /\ running' = Tail(running)
    \/ ghPhase = "listening" /\ ghPhase' = "running"

\* C13 (as claimed): predict delivers a sample only when the video time differs
\* from the last processed time and then sets the last processed time to it, no
\* video time gets more than one sample, and every run of predict registers
\* predict for the next frame.
C13_ThrottledAndRescheduled ==
    [][/\ (deliveredAt' # deliveredAt
              => /\ PredictRan
                 /\ videoTime # lastVideoTime
                 /\ lastVideoTime' = videoTime)
       /\ (\A i, j \in 1..Len(deliveredAt') :
              i # j => deliveredAt'[i] # deliveredAt'[j])
       /\ (PredictRan
              => /\ requestRef' # requestRef
                 /\ \E i \in 1..Len(rafQueue') :
                       /\ rafQueue'[i].fn = "predict"
                       /\ rafQueue'[i].id = requestRef')]_vars

\* C14 (as claimed): once the unmount cleanup has run, whatever initialisation
\* step completes afterwards, no further sample is delivered, no predict
\* callback is scheduled, and the landmarker, if one exists, is closed.
C14_CleanAfterUnmount ==
    [][unmounted' =>
          /\ (unmounted => deliveredAt' = deliveredAt /\ pendingGesture' = pendingGesture)
          /\ \A i \in 1..Len(rafQueue') : rafQueue'[i].fn # "predict"
          /\ \A i \in 1..Len(running') : running'[i].fn # "predict"
          /\ (landmarker' => closed')]_vars

\* C10 (as claimed): a frame on which detection throws or returns a malformed
\* landmark list counts as not detected and predict stays scheduled.
C10_BadFrameRecovered ==
    lastOutcome = "threw"
        => /\ PendingOf("predict") # {}
           /\ ~LatestSample.detected

====
